---- MODULE Spec2Model ----
(***************************************************************************)
(* Model of the price-matching core of game-price-compare:                 *)
(* scraper/matcher.py (normalize, _keyword_match, _is_single_card,         *)
(* _disambiguate_dx, match_products).                                      *)
(*                                                                         *)
(* A text is a sequence of Unicode code points, so that substring search,  *)
(* str.replace, str.strip, the regular expression of normalize and the     *)
(* code-point order used by sorted() are computed as Python computes them. *)
(***************************************************************************)
EXTENDS Integers, Sequences, FiniteSets, TLC

\* matcher.py:15
MATCH_THRESHOLD == 75

\* matcher.py:18
MAX_BOX_PRICE == 60000

BOX_INDICATORS ==
    << <<66, 79, 88>>,   \* "BOX"
       <<98, 111, 120>>,   \* "box"
       <<66, 111, 120>>,   \* "Box"
       <<12508, 12483, 12463, 12473>>,   \* "ボックス"
       <<12497, 12483, 12463>>,   \* "パック"
       <<12471, 12517, 12522, 12531, 12463>>,   \* "シュリンク"
       <<26410, 38283, 23553>>,   \* "未開封"
       <<12475, 12483, 12488>>,   \* "セット"
       <<12487, 12483, 12461>>,   \* "デッキ"
       <<12467, 12524, 12463, 12471, 12519, 12531>> >>   \* "コレクション"

SINGLE_CARD_INDICATORS ==
    << <<83, 65, 82>>,   \* "SAR"
       <<32, 83, 82, 32>>,   \* " SR "
       <<32, 85, 82, 32>>,   \* " UR "
       <<32, 65, 82, 32>>,   \* " AR "
       <<32, 82, 82, 32>>,   \* " RR "
       <<32, 72, 82, 32>>,   \* " HR "
       <<32, 67, 83, 82, 32>>,   \* " CSR "
       <<32, 65, 67, 69, 32>>,   \* " ACE "
       <<86, 83, 84, 65, 82>>,   \* "VSTAR"
       <<86, 77, 65, 88>>,   \* "VMAX"
       <<12503, 12525, 12514>>,   \* "プロモ"
       <<12503, 12525, 12514, 12459, 12540, 12489>>,   \* "プロモカード"
       <<12496, 12521>>,   \* "バラ"
       <<49, 26522>>,   \* "1枚"
       <<12471, 12531, 12464, 12523>>,   \* "シングル"
       <<12459, 12540, 12488, 12531>> >>   \* "カートン"

NOISE ==
    << <<66, 79, 88>>,   \* "BOX"
       <<98, 111, 120>>,   \* "box"
       <<66, 111, 120>>,   \* "Box"
       <<12471, 12517, 12522, 12531, 12463, 20184>>,   \* "シュリンク付"
       <<12471, 12517, 12522, 12531, 12463>>,   \* "シュリンク"
       <<26410, 38283, 23553>>,   \* "未開封"
       <<26032, 21697>>,   \* "新品"
       <<26085, 26412, 35486, 29256>>,   \* "日本語版"
       <<12509, 12465, 12514, 12531, 12459, 12540, 12489, 12466, 12540, 12512>>,   \* "ポケモンカードゲーム"
       <<12509, 12465, 12459>>,   \* "ポケカ"
       <<49, 66, 79, 88>>,   \* "1BOX"
       <<49, 98, 111, 120>>,   \* "1box"
       <<49, 66, 111, 120>> >>   \* "1Box"


(***************************************************************************)
(* Text primitives, with the semantics of Python's str.                    *)
(***************************************************************************)

\* Characters matched by \s in a str pattern, the same set as str.isspace().
WHITESPACE ==
    {9, 10, 11, 12, 13, 28, 29, 30, 31, 32, 133, 160, 5760} \cup (8192..8202)
        \cup {8232, 8233, 8239, 8287, 12288}

\* The bracket and hyphen characters of the character class in normalize:
\* 【 】 [ ] （ ） ( ) 「 」 『 』 -
SEP_CHARS == {12304, 12305, 91, 93, 65288, 65289, 40, 41, 12300, 12301, 12302, 12303, 45}

\* min(S) and max(S) of a non-empty set of integers
SetMin(S) == CHOOSE x \in S : \A y \in S : x <= y

SetMax(S) == CHOOSE x \in S : \A y \in S : x >= y

\* needle in hay
Contains(hay, needle) ==
    \/ needle = <<>>
    \/ \E i \in 1..(Len(hay) - Len(needle) + 1) :
           hay[i] = needle[1] /\ SubSeq(hay, i, i + Len(needle) - 1) = needle

\* s.find(w, from - 1) + 1: the first position from `from` on at which w
\* occurs in s, 0 when there is none.
Find(s, w, from) ==
    LET hits == {i \in from..(Len(s) - Len(w) + 1) :
                     s[i] = w[1] /\ SubSeq(s, i, i + Len(w) - 1) = w}
    IN  IF hits = {} THEN 0 ELSE SetMin(hits)

\* s[from - 1:].replace(w, "") for a non-empty w: the occurrences of w are
\* found from left to right, each search resuming after the occurrence
\* before; what a removal joins is not searched again.
RECURSIVE StrRemoveFrom(_, _, _)
StrRemoveFrom(s, w, from) ==
    LET i == Find(s, w, from) IN
    IF i = 0 THEN SubSeq(s, from, Len(s))
    ELSE SubSeq(s, from, i - 1) \o StrRemoveFrom(s, w, i + Len(w))

\* s.replace(w, "")
StrRemove(s, w) == StrRemoveFrom(s, w, 1)

\* s.strip()
Strip(s) ==
    LET kept == {i \in 1..Len(s) : s[i] \notin WHITESPACE} IN
    IF kept = {} THEN <<>> ELSE SubSeq(s, SetMin(kept), SetMax(kept))

\* s.lower(), on the characters of the model's texts: the ASCII capitals are
\* the only cased characters that survive NFKC there.
LowerChar(c) == IF c \in 65..90 THEN c + 32 ELSE c

Lower(s) == [i \in 1..Len(s) |-> LowerChar(s[i])]

\* unicodedata.normalize("NFKC", c) for one character: the full-width ASCII
\* forms U+FF01..U+FF5E fold to ASCII, the compatibility spaces fold to U+0020,
\* and every other character of the model's texts (ASCII, kana, kanji, the
\* CJK brackets) is its own NFKC form.
NfkcChar(c) ==
    IF c \in 65281..65374 THEN c - 65248
    ELSE IF c \in ({160, 8239, 8287, 12288} \cup (8192..8202)) THEN 32
    ELSE c

Nfkc(s) == [i \in 1..Len(s) |-> NfkcChar(s[i])]

IsSep(c) == c \in SEP_CHARS \/ c \in WHITESPACE

\* re.sub(r"[【】\[\]（）()「」『』\-\s]+", " ", s): every maximal run of
\* separator characters becomes one space (the first character of a run is
\* replaced by a space, the others are dropped).
CollapseSeparators(s) ==
    LET marked == [i \in 1..Len(s) |->
                      IF ~IsSep(s[i]) THEN s[i]
                      ELSE IF i > 1 /\ IsSep(s[i - 1]) THEN -1
                      ELSE 32]
    IN  SelectSeq(marked, LAMBDA c : c # -1)

\* for word in noise: text = text.replace(word, ""), for the first k words
RECURSIVE RemoveNoise(_, _)
RemoveNoise(s, n) ==
    IF n = 0 THEN s
    ELSE LET before == RemoveNoise(s, n - 1) IN
         \* removing from the empty text leaves it empty
         IF before = <<>> THEN <<>> ELSE StrRemove(before, NOISE[n])

\* matcher.normalize
normalize(text) == Strip(RemoveNoise(CollapseSeparators(Nfkc(text)), Len(NOISE)))

(***************************************************************************)
(* rapidfuzz.fuzz.token_sort_ratio (no processor): both texts are split on *)
(* white space, the tokens sorted and joined by one space, and the result  *)
(* is the normalized Indel similarity 100 * 2*LCS / (len1 + len2), a       *)
(* float.  A score is kept as the exact fraction num/den in lowest terms;  *)
(* the comparisons the code makes (score > best_score, best_score >= 75)   *)
(* have the same outcome on the fractions as on the floats.                *)
(***************************************************************************)

RECURSIVE Gcd(_, _)
Gcd(a, b) == IF b = 0 THEN a ELSE Gcd(b, a % b)

Frac(n, d) == LET g == Gcd(n, d) IN [num |-> n \div g, den |-> d \div g]

ScoreOfInt(n) == [num |-> n, den |-> 1]

\* `score >= best_score` in place of `score > best_score`
ScoreGt_or_equal(a, b) == a.num * b.den >= b.num * a.den

\* a > b
ScoreGt(a, b) == a.num * b.den > b.num * a.den

\* a >= b
ScoreGe(a, b) == a.num * b.den >= b.num * a.den

\* s[from - 1:].split(): the maximal runs of characters that are not white space
RECURSIVE SplitFrom(_, _)
SplitFrom(s, from) ==
    LET starts == {i \in from..Len(s) : s[i] \notin WHITESPACE} IN
    IF starts = {} THEN <<>>
    ELSE LET b == SetMin(starts)
             e == SetMin({i \in b..Len(s) :
                              i = Len(s) \/ s[i + 1] \in WHITESPACE})
         IN  <<SubSeq(s, b, e)>> \o SplitFrom(s, e + 1)

\* s.split()
Split(s) == SplitFrom(s, 1)

\* a <= b in the order of Python's str: by the first code point that differs,
\* a prefix before the longer text
TextLeq(a, b) ==
    LET n == IF Len(a) <= Len(b) THEN Len(a) ELSE Len(b)
        diff == {i \in 1..n : a[i] # b[i]}
    IN  IF diff = {} THEN Len(a) <= Len(b)
        ELSE a[SetMin(diff)] < b[SetMin(diff)]

\* sorted(ts): the token at position i moves to the position that counts the
\* tokens before it in the order (equal tokens keep their order)
SortTokens(ts) ==
    LET rank(i) == Cardinality({j \in 1..Len(ts) :
                        \/ ts[j] # ts[i] /\ TextLeq(ts[j], ts[i])
                        \/ ts[j] = ts[i] /\ j <= i})
    IN  [r \in 1..Len(ts) |-> ts[CHOOSE i \in 1..Len(ts) : rank(i) = r]]

\* " ".join(ts)
RECURSIVE Join(_)
Join(ts) ==
    IF Len(ts) = 0 THEN <<>>
    ELSE IF Len(ts) = 1 THEN ts[1]
    ELSE ts[1] \o <<32>> \o Join(Tail(ts))

\* One row of the longest-common-subsequence table from the row above it:
\* entry j + 1 of a row is the LCS length of the characters read so far of
\* the first text and the first j characters of b; c is the character read
\* last.  It is the entry above, or one more than the entry above and left
\* of a position of c in b.
LcsRow(c, b, prev) ==
    LET at == {y \in 1..Len(b) : b[y] = c} IN
    IF at = {} THEN prev
    ELSE [j1 \in 1..(Len(b) + 1) |->
             SetMax({prev[j1]} \cup {prev[x] + 1 : x \in {y \in at : y < j1}})]
             \o <<>>

\* The row after the characters a[lo..hi], from the row before them (prev);
\* the range is halved so that the evaluation nests little.
RECURSIVE LcsRows(_, _, _, _, _)
LcsRows(a, b, lo, hi, prev) ==
    IF lo > hi THEN prev
    ELSE IF lo = hi THEN LcsRow(a[lo], b, prev)
    ELSE LET mid  == (lo + hi) \div 2
             left == LcsRows(a, b, lo, mid, prev)
         IN  IF Len(left) = Len(b) + 1 THEN LcsRows(a, b, mid + 1, hi, left)
             ELSE <<>>

\* Length of a longest common subsequence of a and b.
LcsLen(a, b) ==
    LcsRows(a, b, 1, Len(a), [j1 \in 1..(Len(b) + 1) |-> 0] \o <<>>)[Len(b) + 1]

\* fuzz.ratio: 100 * (1 - indel_distance / (len1 + len2)); 100 for two empty texts
ratio(a, b) ==
    IF Len(a) + Len(b) = 0 THEN ScoreOfInt(100)
    ELSE Frac(200 * LcsLen(a, b), Len(a) + Len(b))

token_sort_ratio(s1, s2) ==
    ratio(Join(SortTokens(Split(s1))), Join(SortTokens(Split(s2))))

(***************************************************************************)
(* The catalog.  A MasterProduct is a record of its identity fields; its   *)
(* prices dict is kept apart, in the variable prices.  The entries below   *)
(* are entries of MASTER_PRODUCTS, with the line of matcher.py that        *)
(* defines each.                                                           *)
(***************************************************************************)

MasterProduct(category, name, retail_price, keywords) ==
    [category |-> category, name |-> name,
     retail_price |-> retail_price, keywords |-> keywords]

\* matcher.py:62  SV 強化拡張パック「151」  ["151", "ポケモンカード151"]
P151 ==
    MasterProduct("sv",
        <<83, 86, 32, 24375, 21270, 25313, 24373, 12497, 12483, 12463, 12300, 49, 53, 49, 12301>>,
        5400,
        << <<49, 53, 49>>,
           <<12509, 12465, 12514, 12531, 12459, 12540, 12489, 49, 53, 49>> >>)

\* matcher.py:66  SV 拡張パックDX「ブラックボルト」  ["ブラックボルト", "BLACKVOLT", "拡張パックDXブラック"]
PBlackBoltDX ==
    MasterProduct("sv",
        <<83, 86, 32, 25313, 24373, 12497, 12483, 12463, 68, 88, 12300, 12502, 12521, 12483, 12463, 12508, 12523, 12488, 12301>>,
        5800,
        << <<12502, 12521, 12483, 12463, 12508, 12523, 12488>>,
           <<66, 76, 65, 67, 75, 86, 79, 76, 84>>,
           <<25313, 24373, 12497, 12483, 12463, 68, 88, 12502, 12521, 12483, 12463>> >>)

\* matcher.py:70  SV 拡張パック「ロケット団の栄光」  ["ロケット団の栄光", "ロケット団", "ロケット"]
PRocket ==
    MasterProduct("sv",
        <<83, 86, 32, 25313, 24373, 12497, 12483, 12463, 12300, 12525, 12465, 12483, 12488, 22243, 12398, 26628, 20809, 12301>>,
        5400,
        << <<12525, 12465, 12483, 12488, 22243, 12398, 26628, 20809>>,
           <<12525, 12465, 12483, 12488, 22243>>,
           <<12525, 12465, 12483, 12488>> >>)

\* matcher.py:72  SV 拡張パック「ブラックボルト」  ["ブラックボルト", "BLACK BOLT"]
PBlackBolt ==
    MasterProduct("sv",
        <<83, 86, 32, 25313, 24373, 12497, 12483, 12463, 12300, 12502, 12521, 12483, 12463, 12508, 12523, 12488, 12301>>,
        5400,
        << <<12502, 12521, 12483, 12463, 12508, 12523, 12488>>,
           <<66, 76, 65, 67, 75, 32, 66, 79, 76, 84>> >>)

\* matcher.py:96  SV 拡張パック「変幻の仮面」  ["変幻の仮面", "変幻"]
PKamen ==
    MasterProduct("sv",
        <<83, 86, 32, 25313, 24373, 12497, 12483, 12463, 12300, 22793, 24187, 12398, 20206, 38754, 12301>>,
        5400,
        << <<22793, 24187, 12398, 20206, 38754>>,
           <<22793, 24187>> >>)

\* matcher.py:102  SV 拡張パック「古代の咆哮」  ["古代の咆哮", "古代"]
PKodai ==
    MasterProduct("sv",
        <<83, 86, 32, 25313, 24373, 12497, 12483, 12463, 12300, 21476, 20195, 12398, 21638, 21742, 12301>>,
        5400,
        << <<21476, 20195, 12398, 21638, 21742>>,
           <<21476, 20195>> >>)

\* The entries above in the order MASTER_PRODUCTS lists them (six of its 33
\* entries): the default of match_products' parameter products.
MASTER_PRODUCTS == <<P151, PBlackBoltDX, PRocket, PBlackBolt, PKamen, PKodai>>

\* The same entries in the opposite order: another value of the parameter products.
REVERSED_PRODUCTS == <<PKodai, PKamen, PBlackBolt, PRocket, PBlackBoltDX, P151>>

Catalogs == {MASTER_PRODUCTS, REVERSED_PRODUCTS}

(***************************************************************************)
(* matcher.py: the functions match_products calls.                         *)
(***************************************************************************)

\* _keyword_match: some keyword, normalized and not empty, occurs in the
\* normalized name.
\* _keyword_match asking for every keyword of the product instead of any.
keyword_match_all(scraped_name, product) ==
    LET norm_name == normalize(scraped_name) IN
    \A i \in DOMAIN product.keywords :
        LET norm_kw == normalize(product.keywords[i]) IN
        norm_kw # <<>> /\ Contains(norm_name, norm_kw)

keyword_match(scraped_name, product) ==
    LET norm_name == normalize(scraped_name) IN
    \E i \in DOMAIN product.keywords :
        LET norm_kw == normalize(product.keywords[i]) IN
        norm_kw # <<>> /\ Contains(norm_name, norm_kw)

\* _is_single_card without its loop over BOX_INDICATORS.
is_single_card_ignoring_box(name) ==
    \E i \in DOMAIN SINGLE_CARD_INDICATORS :
        Contains(name, SINGLE_CARD_INDICATORS[i])

\* _is_single_card: no BOX indicator in the raw name, and a single-card one.
is_single_card(name) ==
    IF \E i \in DOMAIN BOX_INDICATORS : Contains(name, BOX_INDICATORS[i])
    THEN FALSE
    ELSE \E i \in DOMAIN SINGLE_CARD_INDICATORS :
             Contains(name, SINGLE_CARD_INDICATORS[i])

TXT_dx == <<100, 120>>   \* "dx"

TXT_DX == <<68, 88>>   \* "DX"

TXT_pack_dx == <<25313, 24373, 12497, 12483, 12463, 100, 120>>   \* "拡張パックdx"

TXT_pack_DX == <<25313, 24373, 12497, 12483, 12463, 68, 88>>   \* "拡張パックDX"

\* _disambiguate_dx looking for "DX" in the raw name only.
disambiguate_dx_raw_only(scraped_name) ==
    IF Contains(scraped_name, TXT_DX) THEN "dx" ELSE "normal"

\* _disambiguate_dx: "dx" or "normal"; no path returns None.
disambiguate_dx(scraped_name) ==
    LET norm == Lower(normalize(scraped_name)) IN
    IF Contains(norm, TXT_dx) \/ Contains(scraped_name, TXT_DX) THEN "dx"
    ELSE IF Contains(norm, TXT_pack_dx) \/ Contains(scraped_name, TXT_pack_DX)
         THEN "dx"
    ELSE "normal"

\* The keywords of the literal list in match_products:
\* ["ブラックボルト", "ホワイトフレア"]
SHARED_KEYWORDS ==
    { <<12502, 12521, 12483, 12463, 12508, 12523, 12488>>,
      <<12507, 12527, 12452, 12488, 12501, 12524, 12450>> }

\* product.keywords and any(kw in [...] for kw in product.keywords)
needs_disambiguation(product) ==
    \E i \in DOMAIN product.keywords : product.keywords[i] \in SHARED_KEYWORDS

\* product_is_dx = "DX" in product.name
product_is_dx(product) == Contains(product.name, TXT_DX)

\* The two `continue`s of the disambiguation block: the candidate is dropped.
variant_mismatch(name, product) ==
    LET is_dx == disambiguate_dx(name) IN
    \/ product_is_dx(product) /\ is_dx # "dx"
    \/ ~product_is_dx(product) /\ is_dx = "dx"

\* best_product is None: no entry; otherwise the entry's position in products.
None == 0

\* No score: the candidate was dropped by a `continue` of the disambiguation.
NoScore == ScoreOfInt(-1)

\* entry_score with the fuzzy score for a candidate the disambiguation
\* dropped.
entry_score_dropped_to_fuzzy(name, product) ==
    IF /\ keyword_match(name, product)
       /\ ~(needs_disambiguation(product) /\ variant_mismatch(name, product))
    THEN ScoreOfInt(100)
    ELSE token_sort_ratio(normalize(name), normalize(product.name))

\* entry_score without the keyword path: every entry gets its fuzzy score.
entry_score_fuzzy_only(name, product) ==
    token_sort_ratio(normalize(name), normalize(product.name))

\* What one iteration of the loop over products assigns to the local score:
\* 100 on the keyword path, the fuzzy score otherwise.
entry_score(name, product) ==
    IF keyword_match(name, product)
    THEN IF needs_disambiguation(product) /\ variant_mismatch(name, product)
         THEN NoScore
         ELSE ScoreOfInt(100)
    ELSE token_sort_ratio(normalize(name), normalize(product.name))

\* if score > best_score: best_score = score; best_product = product
update_best(pos, score, best) ==
    IF score # NoScore /\ ScoreGt(score, best.score)
    THEN [product |-> pos, score |-> score]
    ELSE best

\* One iteration of `for product in products`, for the entry at position pos:
\* the pair (best_product, best_score) after it, from the pair before it.
product_loop_body(name, catalog, pos, best) ==
    update_best(pos, entry_score(name, catalog[pos]), best)

\* best_product = None; best_score = 0
NoBest == [product |-> None, score |-> ScoreOfInt(0)]

\* The loop over products after its first pos iterations: the pair
\* (best_product, best_score) then.
RECURSIVE product_loop(_, _, _)
product_loop(name, catalog, pos) ==
    IF pos = 0 THEN NoBest
    ELSE LET before == product_loop(name, catalog, pos - 1) IN
         \* the test only orders the evaluation: the earlier iterations first
         IF before.product \in 0..Len(catalog)
         THEN product_loop_body(name, catalog, pos, before)
         ELSE NoBest

\* `best_score > MATCH_THRESHOLD` in place of `>=`
is_match_strict(best) ==
    best.product # None /\ ScoreGt(best.score, ScoreOfInt(MATCH_THRESHOLD))

\* if best_product and best_score >= MATCH_THRESHOLD
is_match(best) ==
    best.product # None /\ ScoreGe(best.score, ScoreOfInt(MATCH_THRESHOLD))

\* The filters with `price >= MAX_BOX_PRICE` in place of `price > MAX_BOX_PRICE`.
filter_ceiling_exclusive(name, price) ==
    IF price <= 0 THEN "skip_price"
    ELSE IF is_single_card(name) THEN "skip_single"
    ELSE IF price >= MAX_BOX_PRICE THEN "skip_high"
    ELSE "score"

\* The filters without the test `price > MAX_BOX_PRICE`.
filter_without_ceiling(name, price) ==
    IF price <= 0 THEN "skip_price"
    ELSE IF is_single_card(name) THEN "skip_single"
    ELSE "score"

\* The filters with `price < 0` in place of `price <= 0`.
filter_zero_price_passes(name, price) ==
    IF price < 0 THEN "skip_price"
    ELSE IF is_single_card(name) THEN "skip_single"
    ELSE IF price > MAX_BOX_PRICE THEN "skip_high"
    ELSE "score"

\* The filters with `if not name or price <= 0` as the first test.
filter_rejecting_empty_name(name, price) ==
    IF name = <<>> \/ price <= 0 THEN "skip_price"
    ELSE IF is_single_card(name) THEN "skip_single"
    ELSE IF price > MAX_BOX_PRICE THEN "skip_high"
    ELSE "score"

\* The three filters at the head of the loop over scraped_items, in the order
\* of the code: which `continue` is taken, or "score" when none is.
filter(name, price) ==
    IF price <= 0 THEN "skip_price"
    ELSE IF is_single_card(name) THEN "skip_single"
    ELSE IF price > MAX_BOX_PRICE THEN "skip_high"
    ELSE "score"

\* record_price without the test `shop_id not in best_product.prices`: the
\* last matching observation's price stays.
record_price_overwrite(pm, shop, price) ==
    [s \in DOMAIN pm \cup {shop} |-> IF s = shop THEN price ELSE pm[s]]

\* record_price adding the price to the one the shop already has.
record_price_adding(pm, shop, price) ==
    [s \in DOMAIN pm \cup {shop} |->
        IF s # shop THEN pm[s]
        ELSE IF shop \in DOMAIN pm THEN pm[shop] + price ELSE price]

\* record_price replacing the dict by one that holds the shop's key alone.
record_price_alone(pm, shop, price) ==
    IF shop \in DOMAIN pm THEN pm ELSE [s \in {shop} |-> price]

\* if shop_id not in best_product.prices: best_product.prices[shop_id] = price
\* on one prices dict pm (a function from the shop ids it holds to prices).
record_price(pm, shop, price) ==
    IF shop \in DOMAIN pm THEN pm
    ELSE [s \in DOMAIN pm \cup {shop} |-> IF s = shop THEN price ELSE pm[s]]

\* The unpacking that also refuses a price <= 0.
well_typed_positive(item) == Len(item) = 2 /\ item[2] > 0

\* `for name, price in scraped_items` can unpack the element: it is a pair.
\* (The names of the model are texts and the prices integers; an element that
\* is not a pair makes the unpacking raise ValueError.)
well_typed(item) == Len(item) = 2

\* The write made only when the entry holds no price of any shop yet.
write_price_if_vacant(catalog, pm, pos, shop, price) ==
    [products |-> catalog,
     prices   |-> IF DOMAIN pm[pos] = {} THEN
                      [pm EXCEPT ![pos] = record_price(@, shop, price)]
                  ELSE pm]

\* The write that also stores the price in the entry's retail_price field.
write_price_into_entry(catalog, pm, pos, shop, price) ==
    [products |-> [catalog EXCEPT ![pos].retail_price = price],
     prices   |-> [pm EXCEPT ![pos] = record_price(@, shop, price)]]

\* The guarded write `best_product.prices[shop_id] = price` on the catalog
\* (identity fields catalog, prices dicts pm): the entry at pos gets the
\* price, no identity field of any entry is assigned.
write_price(catalog, pm, pos, shop, price) ==
    [products |-> catalog,
     prices   |-> [pm EXCEPT ![pos] = record_price(@, shop, price)]]

(***************************************************************************)
(* Inputs.                                                                 *)
(***************************************************************************)

\* Most observations of a call of match_products.
MaxItems == 2

\* Most calls of match_products in a behaviour.
MaxCalls == 2

\* Most words of a generated raw name.
MaxWords == 3

\* shop_id values (shops/morimori.py, shops/homura.py)
Shops == {"morimori", "homura"}

Prices == {-1, 0, 5800, 60000, 60001}

\* "151 SAR": best entry 1, score 100.0, keyword; single card: True
NAME_single == <<49, 53, 49, 32, 83, 65, 82>>

\* "151 BOX SAR": best entry 1, score 100.0, keyword; single card: False
NAME_sealed_single == <<49, 53, 49, 32, 66, 79, 88, 32, 83, 65, 82>>

\* "拡張パック 仮面 の": best entry 5, score 75.0, fuzzy; single card: False
NAME_fuzzy_75 == <<25313, 24373, 12497, 12483, 12463, 32, 20206, 38754, 32, 12398>>

\* "拡張パック 仮面 DX": best entry 5, score 72.0, fuzzy; single card: False
NAME_fuzzy_72 == <<25313, 24373, 12497, 12483, 12463, 32, 20206, 38754, 32, 68, 88>>

\* "": best entry None, score 0.0, keyword; single card: False
NAME_empty == <<>>

\* "ブラックボルト DX": best entry 2, score 100.0, keyword; single card: False
NAME_dx == <<12502, 12521, 12483, 12463, 12508, 12523, 12488, 32, 68, 88>>

\* "SV 拡張パック ブラックボルト": best entry 4, score 100.0, keyword; single card: False
NAME_base == <<83, 86, 32, 25313, 24373, 12497, 12483, 12463, 32, 12502, 12521, 12483, 12463, 12508, 12523, 12488>>

FlowNames ==
    {NAME_single, NAME_sealed_single, NAME_fuzzy_75, NAME_fuzzy_72, NAME_empty,
     NAME_dx, NAME_base}

\* scraped_items: the lists of at most MaxItems (name, price) tuples
ItemLists == UNION {[1..n -> FlowNames \X Prices] : n \in 0..MaxItems}

Words ==
    << <<49, 53, 49>>,   \* "151"
       <<12502, 12521, 12483, 12463, 12508, 12523, 12488>>,   \* "ブラックボルト"
       <<66, 79, 88>>,   \* "BOX"
       <<68, 88>>,   \* "DX"
       <<83, 86>>,   \* "SV"
       <<25313, 24373, 12497, 12483, 12463>>,   \* "拡張パック"
       <<12398>> >>   \* "の"

ExtraNames ==
    { <<66, 79, 66, 79, 88, 88>>,   \* "BOBOXX"
      <<12502, 12521, 12483, 12463, 12508, 12523, 12488, 32, 68, 66, 79, 88, 88>>,   \* "ブラックボルト DBOXX"
      <<12502, 12521, 12483, 12463, 12508, 12523, 12488, 32, 65316, 65336, 32, 26410, 38283, 23553, 66, 79, 88>>,   \* "ブラックボルト ＤＸ 未開封BOX"
      <<12304, 26032, 21697, 12305, 12509, 12465, 12514, 12531, 12459, 12540, 12489, 12466, 12540, 12512, 32, 49, 53, 49, 32, 66, 79, 88, 32, 12471, 12517, 12522, 12531, 12463, 20184, 12365>>,   \* "【新品】ポケモンカードゲーム 151 BOX シュリンク付き"
      <<83, 86, 32, 25313, 24373, 12497, 12483, 12463, 32, 22793, 29572, 12398, 20206, 38754>>,   \* "SV 拡張パック 変玄の仮面"
      <<12502, 12521, 12483, 12463, 12508, 12523, 12488, 32, 100, 120>>,   \* "ブラックボルト dx"
      <<49, 53, 49, 32, 83, 65, 82>>,   \* "151 SAR"
      <<49, 53, 49, 32, 66, 79, 88, 32, 83, 65, 82>>,   \* "151 BOX SAR"
      <<66, 76, 65, 67, 75, 86, 79, 76, 84>>,   \* "BLACKVOLT"
      <<66, 76, 65, 67, 75, 86, 79, 76, 84, 32, 68, 88>>,   \* "BLACKVOLT DX"
      <<12502, 12521, 12483, 12463, 12508, 12523, 12488, 32, 68, 120>> }   \* "ブラックボルト Dx"

\* The words ws joined by single spaces.
JoinWords(ws) == Join([i \in 1..Len(ws) |-> Words[ws[i]]])

\* Raw names: at most MaxWords of the words, separated by single spaces, the
\* names of ExtraNames and those of FlowNames.
RawNames ==
    {JoinWords(ws) : ws \in UNION {[1..n -> DOMAIN Words] : n \in 0..MaxWords}}
        \cup ExtraNames \cup FlowNames

(***************************************************************************)
(* The results of the pure functions on the inputs of match_products, each *)
(* computed once.                                                          *)
(***************************************************************************)

FilterOf == [n \in FlowNames |-> [p \in Prices |-> filter(n, p)] @@ <<>>] @@ <<>>

BestOf ==
    [c \in Catalogs |->
        [n \in FlowNames |-> product_loop(n, c, Len(c))] @@ <<>>] @@ <<>>

\* A count of matching observations: every match adds an element of its own.
matched_add_per_observation(matched_set, key) ==
    matched_set \cup {key + 100 * Cardinality(matched_set)}

\* key = id(best_product); if key not in matched: matched.add(key)
matched_add(matched_set, key) ==
    IF key \notin matched_set THEN matched_set \cup {key} ELSE matched_set

\* The locals (best_product, best_score) left as the previous observation
\* set them.
reset_best_skipped(before) == before

\* best_product = None; best_score = 0, whatever the locals held before
reset_best(before) == NoBest

\* `for product in products` entered with the locals (best_product,
\* best_score) equal to start: an entry replaces them only with a strictly
\* higher score, so the loop ends on its own winner when that one scores
\* strictly higher than start, and on start otherwise.
product_loop_from(start, name, catalog) ==
    LET own == BestOf[catalog][name] IN
    IF own.product = None THEN start
    ELSE update_best(own.product, own.score, start)

(***************************************************************************)
(* State.                                                                  *)
(*   products      the catalog: the identity fields of the entries         *)
(*   prices        prices[e]: the prices dict of entry e of products       *)
(*   pc            "idle" or, inside match_products, "loop"                *)
(*   shop_id, items  the arguments of the call in progress                 *)
(*   idx           how many of items the loop has consumed                 *)
(*   matched       the local set matched: the entries (by position, for    *)
(*                 id(product)) matched in this call                       *)
(*   best_product, best_score   the locals of those names                  *)
(*   outcome       the branch the last iteration of the item loop took     *)
(*   summary       the last "matched %d/%d items" log record, if any       *)
(*   entry_prices  prices as they were when the call in progress began     *)
(*   calls         number of calls of match_products so far                *)
(* and, for the functions applied to one raw name:                         *)
(*   raw, hpc, normalized, renorm, single, variant, k                      *)
(*   scores        the value of the local score in each iteration of the   *)
(*                 loop over products so far, in order                     *)
(* for two calls in a row with the same arguments:                         *)
(*   args          the arguments (scraped_items, shop_id) of the first of  *)
(*                 the two calls, and how many of the two were made        *)
(* for the calls of two shops made in both orders:                         *)
(*   order         the two (scraped_items, shop_id), how far the calls     *)
(*                 have come, and the prices the first order ended with    *)
(* for BaseScraper._get_soup:                                              *)
(*   gpc           position: "off", "try" (at the head of an iteration of  *)
(*                 the loop over attempts), "returned" or "raised"         *)
(*   url           the argument url                                        *)
(*   attempt       the loop variable of that name                          *)
(*   replies       what each call of session.get led to, in order          *)
(*   slept         the arguments of the calls of time.sleep, in order      *)
(*   warned        the (attempt + 1, exception) of each logged warning     *)
(*   soup          the value returned, if any                              *)
(*   raised        the exception that left the function, if any            *)
(* and, for main():                                                        *)
(*   mpc           main's position                                         *)
(*   si            how many scrapers of ALL_SCRAPERS the loop has finished *)
(*   cache         the local dict cache: shop id -> list of observations   *)
(*   scraped       the local list scraped of the iteration in progress     *)
(*   success_count the local of that name                                  *)
(*   entered       the calls of match_products main has made in this run,  *)
(*                 in order: (shop_id, list passed, line of the call)      *)
(*   html          what generate_html was called with, if it was           *)
(*   disk          the content of data/cache.json                          *)
(***************************************************************************)
VARIABLES products, prices, pc, shop_id, items, idx, matched, best_product,
          best_score, outcome, summary, entry_prices, calls,
          raw, hpc, normalized, renorm, single, variant, k, scores,
          args, order, mpc, si, cache, scraped, success_count, entered, html,
          disk, gpc, url, attempt, replies, slept, warned, soup, raised

flow_vars == <<prices, pc, shop_id, items, idx, matched, outcome, summary,
               entry_prices, calls>>

name_vars == <<raw, hpc, normalized, renorm, single, variant, k, scores>>

main_vars == <<mpc, si, cache, scraped, success_count, entered, html, disk>>

soup_vars == <<gpc, url, attempt, replies, slept, warned, soup, raised>>

run_vars == <<args, order, soup_vars, main_vars>>

vars == <<products, best_product, best_score, flow_vars, name_vars, run_vars>>

\* prices: dict[str, int] = field(default_factory=dict), for every entry
NoPrices(c) == [e \in 1..Len(c) |-> [s \in {} |-> 0]]

(***************************************************************************)
(* match_products                                                          *)
(***************************************************************************)

\* The record with the counts swapped.
log_summary_swapped(shop, matched_set, scraped_items) ==
    [shop |-> shop, matched |-> Len(scraped_items),
     total |-> Cardinality(matched_set)]

\* logger.info("%s: matched %d/%d items", shop_id, len(matched), len(scraped_items))
log_summary(shop, matched_set, scraped_items) ==
    [shop |-> shop, matched |-> Cardinality(matched_set),
     total |-> Len(scraped_items)]

\* No arguments chosen yet for the two calls in a row.
NoArgs == [items |-> <<>>, shop |-> "", made |-> 0]

\* No arguments chosen yet for the calls of two shops in both orders.
NoOrder == [one |-> <<>>, two |-> <<>>, step |-> 0, final |-> <<>>]

\* The variables of _get_soup while it is not used.
SoupOff ==
    /\ gpc = "off" /\ url = "" /\ attempt = 0 /\ replies = <<>>
    /\ slept = <<>> /\ warned = <<>> /\ soup = <<>> /\ raised = "none"

\* The variables of the two calls in a row, of the calls in both orders, of
\* _get_soup and of main(), while none runs.
RunOff ==
    /\ args = NoArgs
    /\ order = NoOrder
    /\ SoupOff
    /\ mpc = "off" /\ si = 0 /\ cache = <<>> /\ scraped = <<>>
    /\ success_count = 0 /\ entered = <<>> /\ html = <<>> /\ disk = <<>>

\* The variables of the functions applied to one raw name, while unused.
NameOff ==
    /\ raw = <<>> /\ hpc = "off" /\ normalized = <<>> /\ renorm = <<>>
    /\ single = FALSE /\ variant = "" /\ k = 0 /\ scores = <<>>

Init ==
    /\ products \in Catalogs
    /\ prices = NoPrices(products)
    /\ entry_prices = NoPrices(products)
    /\ pc = "idle"
    /\ shop_id = ""
    /\ items = <<>>
    /\ idx = 0
    /\ matched = {}
    /\ best_product = None
    /\ best_score = ScoreOfInt(0)
    /\ outcome = "none"
    /\ summary = <<>>
    /\ calls = 0
    /\ NameOff
    /\ RunOff

\* match_products(its, shop, products) is entered: matched = set()
enter(its, shop) ==
    /\ items' = its
    /\ shop_id' = shop
    /\ pc' = "loop"
    /\ idx' = 0
    /\ matched' = {}
    /\ best_product' = None
    /\ best_score' = ScoreOfInt(0)
    /\ outcome' = "none"
    /\ entry_prices' = prices
    /\ calls' = calls + 1
    /\ UNCHANGED <<products, prices, summary, name_vars>>

\* A call of match_products with any arguments.
Call ==
    /\ pc = "idle"
    /\ calls < MaxCalls
    /\ \E its \in ItemLists, shop \in Shops : enter(its, shop)
    /\ UNCHANGED run_vars

\* One iteration of `for name, price in scraped_items`.
Iterate ==
    /\ pc = "loop"
    /\ idx < Len(items)
    /\ well_typed(items[idx + 1])
    /\ LET name == items[idx + 1][1]
           price == items[idx + 1][2]
           f == FilterOf[name][price]
           locals == [product |-> best_product, score |-> best_score]
           best == product_loop_from(reset_best(locals), name, products)
       IN  IF f # "score"
           THEN /\ outcome' = f
                /\ UNCHANGED <<products, prices, matched, best_product, best_score>>
           ELSE /\ best_product' = best.product
                /\ best_score' = best.score
                /\ IF is_match(best)
                   THEN /\ LET after == write_price(products, prices,
                                                    best.product, shop_id, price)
                           IN  /\ products' = after.products
                               /\ prices' = after.prices
                        /\ matched' = matched_add(matched, best.product)
                        /\ outcome' = "matched"
                   ELSE /\ outcome' = "unmatched"
                        /\ UNCHANGED <<products, prices, matched>>
    /\ idx' = idx + 1
    /\ UNCHANGED <<pc, shop_id, items, summary, entry_prices, calls,
                   name_vars, run_vars>>

\* The loop is over: logger.info("%s: matched %d/%d items", ...) and return.
Return ==
    /\ pc = "loop"
    /\ idx = Len(items)
    /\ summary' = <<log_summary(shop_id, matched, items)>>
    /\ pc' = "idle"
    /\ shop_id' = ""
    /\ items' = <<>>
    /\ idx' = 0
    /\ matched' = {}
    /\ best_product' = None
    /\ best_score' = ScoreOfInt(0)
    /\ outcome' = "none"
    /\ entry_prices' = prices
    /\ UNCHANGED <<products, prices, calls, name_vars, run_vars>>

Next == Call \/ Iterate \/ Return

Spec == Init /\ [][Next]_vars

(***************************************************************************)
(* Properties of match_products (specification Spec).                      *)
(***************************************************************************)

\* score >= 75, on the exact fraction
AtLeast75(score) == score.num >= 75 * score.den

\* The observation passed the three filters: price > 0, not a single card,
\* price <= 60000.
Eligible(item) == FilterOf[item[1]][item[2]] = "score"

\* Among the first n observations of the call in progress, those that are
\* eligible and whose winning entry is e with score >= 75.
HitsOf(e, n) ==
    {i \in 1..n : /\ Eligible(items[i])
                  /\ BestOf[products][items[i][1]].product = e
                  /\ AtLeast75(BestOf[products][items[i][1]].score)}

\* During a call for shop_id, with idx observations consumed: an entry that
\* held a price of shop_id when the call began, or that no consumed observation
\* resolved to, has the prices it had; any other holds, for shop_id, the price
\* of the first consumed observation that resolved to it.
FirstHitPrice ==
    pc = "loop" =>
        \A e \in 1..Len(products) :
            LET hits == HitsOf(e, idx) IN
            IF shop_id \in DOMAIN entry_prices[e] \/ hits = {}
            THEN prices[e] = entry_prices[e]
            ELSE /\ DOMAIN prices[e] = DOMAIN entry_prices[e] \cup {shop_id}
                 /\ prices[e][shop_id] = items[SetMin(hits)][2]
                 /\ \A s \in DOMAIN entry_prices[e] :
                        prices[e][s] = entry_prices[e][s]

\* A step leaves every price that is set as it is.
PricesKept ==
    \A e \in 1..Len(products) : \A s \in DOMAIN prices[e] :
        s \in DOMAIN prices'[e] /\ prices'[e][s] = prices[e][s]

\* C1: once E.prices[S] is written, no later observation of the same or of a
\* later call of match_products changes it; and the price a call writes for
\* its shop is that of the first observation, in sequence order, that is
\* eligible and resolves to E with score >= 75, whatever later observations
\* that resolve to E carry.
C1_FirstPriceKept == [](FirstHitPrice) /\ [][PricesKept]_vars

\* Second call for a shop: both observations resolve to entry 1 of
\* MASTER_PRODUCTS with different prices, the first one's price is stored, and
\* the price the first call stored for another entry is still there.
C1_Witness ==
    /\ products = MASTER_PRODUCTS
    /\ pc = "loop" /\ calls = 2 /\ idx = 2 /\ Len(items) = 2
    /\ items[1] = <<NAME_sealed_single, 60000>>
    /\ items[2] = <<NAME_sealed_single, 5800>>
    /\ shop_id \notin DOMAIN entry_prices[1]
    /\ prices[1][shop_id] = 60000
    /\ shop_id \in DOMAIN entry_prices[2]
    /\ prices[2][shop_id] = entry_prices[2][shop_id]

\* One iteration of the loop over scraped_items: it consumes items[idx + 1].
IterateStep == pc = "loop" /\ idx' = idx + 1

\* The raw names of the observations that contain no keyword of any entry:
\* their best candidate is a fuzzy one.
FuzzyOnlyOf ==
    [n \in FlowNames |->
        \A e \in 1..Len(MASTER_PRODUCTS) :
            \A i \in DOMAIN MASTER_PRODUCTS[e].keywords :
                LET kw == normalize(MASTER_PRODUCTS[e].keywords[i]) IN
                kw = <<>> \/ ~Contains(normalize(n), kw)] @@ <<>>

\* The raw names with a sealed/BOX indicator, and those with a single-card one.
BoxIndicatorIn ==
    [n \in FlowNames |->
        \E i \in DOMAIN BOX_INDICATORS : Contains(n, BOX_INDICATORS[i])] @@ <<>>

SingleIndicatorIn ==
    [n \in FlowNames |->
        \E i \in DOMAIN SINGLE_CARD_INDICATORS :
            Contains(n, SINGLE_CARD_INDICATORS[i])] @@ <<>>

\* prices after writing price for shop_id into entry w if w has none for it.
WrittenIfAbsent(w, price) ==
    IF shop_id \in DOMAIN prices[w] THEN prices' = prices
    ELSE /\ DOMAIN prices'[w] = DOMAIN prices[w] \cup {shop_id}
         /\ prices'[w][shop_id] = price
         /\ \A s \in DOMAIN prices[w] : prices'[w][s] = prices[w][s]
         /\ \A e \in 1..Len(products) : e # w => prices'[e] = prices[e]

ThresholdStep ==
    LET name == items[idx + 1][1]
        price == items[idx + 1][2]
        best == BestOf[products][name]
    IN  (IterateStep /\ Eligible(items[idx + 1]) /\ FuzzyOnlyOf[name]) =>
            IF AtLeast75(best.score)
            THEN /\ outcome' = "matched"
                 /\ best_product' = best.product
                 /\ WrittenIfAbsent(best.product, price)
            ELSE outcome' = "unmatched" /\ prices' = prices

\* C4: for an eligible observation whose best candidate is fuzzy-only, a best
\* score >= 75 produces a match (the price is written to the winner's prices
\* if the shop has none there) and a best score < 75, also a best score of 0
\* with no candidate, produces "unmatched" and changes no prices.
C4_ThresholdBoundary == [][ThresholdStep]_vars

\* A name scoring exactly 75 was matched and its price written; the next,
\* scoring 72, was left unmatched.
C4_Witness ==
    /\ products = MASTER_PRODUCTS
    /\ pc = "loop" /\ idx = 2
    /\ items = << <<NAME_fuzzy_75, 5800>>, <<NAME_fuzzy_72, 60000>> >>
    /\ BestOf[products][NAME_fuzzy_75].score = ScoreOfInt(75)
    /\ outcome = "unmatched" /\ best_score = ScoreOfInt(72)
    /\ shop_id \notin DOMAIN entry_prices[5]
    /\ prices[5][shop_id] = 5800

SealedOrSingleStep ==
    LET name == items[idx + 1][1]
        price == items[idx + 1][2]
    IN  IterateStep =>
            /\ BoxIndicatorIn[name] => outcome' # "skip_single"
            /\ (SingleIndicatorIn[name] /\ ~BoxIndicatorIn[name]) =>
                   /\ prices' = prices
                   /\ price > 0 => outcome' = "skip_single"

\* C6: a raw name with a sealed/BOX indicator is never classified as a single
\* card, whatever single-card indicators it also has; a raw name with a
\* single-card indicator and no sealed one is, and match_products skips the
\* observation without a write.
C6_SealedBeatsSingle == [][SealedOrSingleStep]_vars

\* "151 BOX SAR" was matched and priced, then "151 SAR" was skipped as a
\* single card.
C6_Witness ==
    /\ products = MASTER_PRODUCTS
    /\ pc = "loop" /\ idx = 2
    /\ items = << <<NAME_sealed_single, 5800>>, <<NAME_single, 60000>> >>
    /\ outcome = "skip_single"
    /\ shop_id \notin DOMAIN entry_prices[1]
    /\ prices[1][shop_id] = 5800

\* price > 0 and the name is not that of a single card
OtherwiseEligible(item) ==
    item[2] > 0 /\ ~(SingleIndicatorIn[item[1]] /\ ~BoxIndicatorIn[item[1]])

CeilingStep ==
    LET price == items[idx + 1][2] IN
    (IterateStep /\ OtherwiseEligible(items[idx + 1])) =>
        /\ price = 60000 => outcome' \in {"matched", "unmatched"}
        /\ price >= 60001 => outcome' = "skip_high" /\ prices' = prices

\* C7: an otherwise eligible observation is scored when its price is the
\* ceiling, 60000, and rejected with no write when its price is 60001 or more.
C7_PriceCeiling == [][CeilingStep]_vars

\* The same name at 60000, matched and written, then at 60001, rejected.
C7_Witness ==
    /\ products = MASTER_PRODUCTS
    /\ pc = "loop" /\ idx = 2
    /\ items = << <<NAME_base, 60000>>, <<NAME_dx, 60001>> >>
    /\ outcome = "skip_high"
    /\ shop_id \notin DOMAIN entry_prices[4]
    /\ prices[4][shop_id] = 60000
    /\ prices[2] = entry_prices[2]

NoPriceStep ==
    (IterateStep /\ items[idx + 1][2] <= 0) =>
        /\ outcome' = "skip_price"
        /\ prices' = prices
        /\ matched' = matched

\* C8: an observation whose price is <= 0 is rejected before scoring and
\* writes no price, whatever its name.
C8_NoPriceNoWrite == [][NoPriceStep]_vars

\* A name with the keyword of entry 1 and price 0 was rejected, no price set.
C8_Witness ==
    /\ products = MASTER_PRODUCTS
    /\ pc = "loop" /\ idx = 1 /\ calls = 1
    /\ items[1] = <<NAME_sealed_single, 0>>
    /\ BestOf[products][NAME_sealed_single].product = 1
    /\ outcome = "skip_price"
    /\ prices = NoPrices(products)

\* The entries some observation of the call in progress resolved to.
MatchedEntries == {e \in 1..Len(products) : HitsOf(e, Len(items)) # {}}

\* The eligible observations of the call in progress.
EligibleItems == {i \in 1..Len(items) : Eligible(items[i])}

ReturnStep == pc = "loop" /\ pc' = "idle"

\* C10 as stated: the summary is (distinct entries matched in this call,
\* eligible observations of this call).
C10_SummaryCountsEligible ==
    [][ReturnStep =>
          summary' = <<[shop |-> shop_id,
                        matched |-> Cardinality(MatchedEntries),
                        total |-> Cardinality(EligibleItems)]>>]_vars

\* C10, amended: the summary is (distinct entries matched in this call, all
\* observations passed to this call, eligible or not).
C10_SummaryCountsAll ==
    [][ReturnStep =>
          summary' = <<[shop |-> shop_id,
                        matched |-> Cardinality(MatchedEntries),
                        total |-> Len(items)]>>]_vars

\* A first call returned with two observations and one entry matched and
\* priced.
C10_Witness ==
    /\ pc = "idle" /\ calls = 1
    /\ summary = <<[shop |-> "morimori", matched |-> 1, total |-> 2]>>
    /\ Cardinality({e \in 1..Len(products) : DOMAIN prices[e] = {"morimori"}}) = 1

(***************************************************************************)
(* The functions of matcher.py applied to one raw name, one after the      *)
(* other: normalize, normalize again, _is_single_card, _disambiguate_dx,   *)
(* then the loop over products one entry at a time.                        *)
(***************************************************************************)

InitName ==
    /\ products \in Catalogs
    /\ raw \in RawNames
    /\ hpc = "start"
    /\ normalized = <<>> /\ renorm = <<>> /\ single = FALSE /\ variant = "" /\ k = 0
    /\ scores = <<>>
    /\ best_product = None
    /\ best_score = ScoreOfInt(0)
    /\ prices = NoPrices(products)
    /\ entry_prices = NoPrices(products)
    /\ pc = "off" /\ shop_id = "" /\ items = <<>> /\ idx = 0 /\ matched = {}
    /\ outcome = "none" /\ summary = <<>> /\ calls = 0
    /\ RunOff

ApplyNormalize ==
    /\ hpc = "start"
    /\ normalized' = normalize(raw)
    /\ hpc' = "normalized"
    /\ UNCHANGED <<products, best_product, best_score, flow_vars, run_vars,
                   raw, renorm, single, variant, k, scores>>

ApplyNormalizeAgain ==
    /\ hpc = "normalized"
    /\ renorm' = normalize(normalized)
    /\ hpc' = "renormalized"
    /\ UNCHANGED <<products, best_product, best_score, flow_vars, run_vars,
                   raw, normalized, single, variant, k, scores>>

ApplyIsSingleCard ==
    /\ hpc = "renormalized"
    /\ single' = is_single_card(raw)
    /\ hpc' = "classified"
    /\ UNCHANGED <<products, best_product, best_score, flow_vars, run_vars,
                   raw, normalized, renorm, variant, k, scores>>

ApplyDisambiguateDx ==
    /\ hpc = "classified"
    /\ variant' = disambiguate_dx(raw)
    /\ hpc' = "scoring"
    /\ UNCHANGED <<products, best_product, best_score, flow_vars, run_vars,
                   raw, normalized, renorm, single, k, scores>>

\* One iteration of `for product in products`, for entry k + 1.
ScoreNext ==
    /\ hpc = "scoring"
    /\ k < Len(products)
    /\ LET score == entry_score(raw, products[k + 1])
           best == update_best(k + 1, score,
                       [product |-> best_product, score |-> best_score])
       IN  /\ scores' = Append(scores, score)
           /\ best_product' = best.product
           /\ best_score' = best.score
    /\ k' = k + 1
    /\ UNCHANGED <<products, flow_vars, run_vars,
                   raw, hpc, normalized, renorm, single, variant>>

NextName ==
    \/ ApplyNormalize
    \/ ApplyNormalizeAgain
    \/ ApplyIsSingleCard
    \/ ApplyDisambiguateDx
    \/ ScoreNext

SpecName == InitName /\ [][NextName]_vars

(***************************************************************************)
(* Properties of the functions applied to one raw name (SpecName).         *)
(***************************************************************************)

\* Every entry of products has been scored against raw.
Scored == hpc = "scoring" /\ k = Len(products)

\* The normalized form of the raw name contains a normalized, non-empty
\* keyword of entry e.
HasKeywordOf(e) ==
    \E i \in DOMAIN products[e].keywords :
        LET kw == normalize(products[e].keywords[i]) IN
        kw # <<>> /\ Contains(normalized, kw)

\* Entry e is subject to the DX/base disambiguation and the variant found for
\* the raw name is not the entry's.
FailsVariantCheck(e) ==
    /\ needs_disambiguation(products[e])
    /\ product_is_dx(products[e]) # (variant = "dx")

\* The entries that obtained the score 100 in the loop over products.
Scoring100 ==
    {e \in 1..Len(scores) : scores[e] = ScoreOfInt(100)}

\* The entries whose keyword the raw name contains and whose variant check it
\* passes.
KeywordEntries ==
    {e \in 1..Len(products) : HasKeywordOf(e) /\ ~FailsVariantCheck(e)}

\* C2 as stated: every entry E whose normalized keyword the normalized name
\* contains, and whose variant check the name does not fail, is the winner,
\* with score 100.
C2_KeywordEntryWins ==
    Scored =>
        \A e \in KeywordEntries :
            best_score = ScoreOfInt(100) /\ best_product = e

\* C2, amended: a name whose normalized form contains a normalized keyword of
\* an entry E that does not fail E's variant check gets score 100, and the
\* winner is the first entry in catalog order that scores 100 for the name
\* (E itself when no earlier entry does).
C2_FirstKeywordEntryWins ==
    Scored =>
        \A e \in KeywordEntries :
            /\ best_score = ScoreOfInt(100)
            /\ best_product = SetMin(Scoring100)
            /\ (\A x \in 1..(e - 1) : x \notin Scoring100) => best_product = e

\* A name with the keywords of two entries: the earlier one won, at 100.
C2_Witness ==
    /\ Scored
    /\ \E e1, e2 \in KeywordEntries :
           e1 < e2 /\ best_product = e1 /\ e1 = SetMin(Scoring100)
    /\ best_score = ScoreOfInt(100)

\* The position in products of the catalog entry p.
PosOf(p) == CHOOSE e \in 1..Len(products) : products[e] = p

\* "ブラックボルト": the keyword the entries PBlackBoltDX and PBlackBolt share.
KW_shared == PBlackBolt.keywords[1]

\* "DX" in any letter case occurs in the raw name or in its normalized form.
HasDxMarker ==
    Contains(Lower(raw), TXT_dx) \/ Contains(Lower(normalized), TXT_dx)

\* An entry other than the DX/base pair obtained the score 100.
OtherScores100 ==
    \E e \in Scoring100 : e # PosOf(PBlackBoltDX) /\ e # PosOf(PBlackBolt)

\* With the marker the winner is the DX entry, without it the base entry.
VariantResolved ==
    /\ best_score = ScoreOfInt(100)
    /\ HasDxMarker => best_product = PosOf(PBlackBoltDX)
    /\ ~HasDxMarker => best_product = PosOf(PBlackBolt)

\* C3 as stated: a name containing the shared keyword resolves to the DX
\* entry when it contains the DX marker and to the base entry when it does
\* not, in either order of the catalog.
C3_VariantByMarker ==
    (Scored /\ Contains(raw, KW_shared)) => VariantResolved

\* C3, amended: the same for a name for which no entry outside the pair
\* scores 100 (by a keyword or by a fuzzy score of 100), the marker being
\* "DX" in any letter case in the raw name or in its normalized form.
C3_VariantByMarkerInPair ==
    (Scored /\ Contains(raw, KW_shared) /\ ~OtherScores100) =>
        VariantResolved

\* In the reversed catalog, where the base entry comes first, a name with the
\* keyword and a lower-case marker went to the DX entry.
C3_Witness ==
    /\ Scored
    /\ products = REVERSED_PRODUCTS
    /\ Contains(raw, KW_shared) /\ ~OtherScores100
    /\ Contains(raw, TXT_dx)
    /\ best_product = PosOf(PBlackBoltDX)
    /\ PosOf(PBlackBolt) < PosOf(PBlackBoltDX)

\* C5: normalize(normalize(x)) = normalize(x) for every text x.
C5_NormalizeIdempotent ==
    (hpc # "start" /\ hpc # "normalized") => renorm = normalized

\* The best score among the scores obtained, 0 when none is above 0.
BestEntryScore ==
    LET obtained == {scores[e] : e \in 1..Len(scores)} \cup {ScoreOfInt(0)}
    IN  CHOOSE m \in obtained : \A x \in obtained : m.num * x.den >= x.num * m.den

\* The winner is the first entry, in the order of products, with the best
\* score (no entry when no score is above 0).
FirstBestWins ==
    Scored =>
        LET top == BestEntryScore
            tops == {e \in 1..Len(scores) : scores[e] = top}
        IN  /\ best_score = top
            /\ best_product = IF top = ScoreOfInt(0) THEN None ELSE SetMin(tops)

\* An iteration of the loop over products changes the winner only with a
\* strictly higher score, and never lowers the best score.
OnlyStrictlyHigher ==
    /\ best_score'.num * best_score.den >= best_score.num * best_score'.den
    /\ best_product' # best_product =>
           best_score'.num * best_score.den > best_score.num * best_score'.den

\* C9: when several entries obtain the same best score, the winner is the one
\* that comes first in the order of products; a later entry replaces the
\* current best only with a strictly higher score.
C9_FirstOfTiesWins == [](FirstBestWins) /\ [][OnlyStrictlyHigher]_vars

\* Two entries tie on a fuzzy best score and the earlier one is the winner.
C9_Witness ==
    /\ Scored
    /\ best_score # ScoreOfInt(100)
    /\ \E e1, e2 \in 1..Len(products) :
           /\ e1 < e2
           /\ scores[e1] = best_score
           /\ scores[e2] = best_score
           /\ best_product = e1

(***************************************************************************)
(* Frame and error-handling properties of match_products (specification    *)
(* Spec).                                                                  *)
(***************************************************************************)

\* During a call for shop_id every entry holds, for each other shop, the
\* price it held when the call began, and none it did not hold.
OtherShopsKept ==
    pc = "loop" =>
        \A e \in 1..Len(products) : \A t \in Shops \ {shop_id} :
            /\ t \in DOMAIN prices[e] <=> t \in DOMAIN entry_prices[e]
            /\ t \in DOMAIN prices[e] => prices[e][t] = entry_prices[e][t]

\* C12: match_products(items, S) writes only the key S: for every entry and
\* every shop T # S, prices[T] is present after the call exactly when it was
\* before it, with the same value.
C12_OnlyOwnShopKey == OtherShopsKept

\* A call has consumed all its observations and wrote its shop's price into
\* an entry that held another shop's price.
C12_Witness ==
    /\ pc = "loop" /\ idx = Len(items)
    /\ \E e \in 1..Len(products) : \E t \in Shops \ {shop_id} :
           /\ t \in DOMAIN entry_prices[e]
           /\ shop_id \notin DOMAIN entry_prices[e]
           /\ shop_id \in DOMAIN prices[e]

\* C13: no step of any sequence of match_products calls adds, removes or
\* reorders catalog entries or changes an entry's category, name,
\* retail_price or keywords; there is one prices dict per entry throughout.
C13_CatalogFixed ==
    [][products' = products /\ DOMAIN prices' = DOMAIN products]_vars

\* Two calls have returned and prices were written, the catalog being one of
\* the two orders it started in.
C13_Witness ==
    /\ pc = "idle" /\ calls = MaxCalls
    /\ products \in Catalogs
    /\ \E e \in 1..Len(products) : DOMAIN prices[e] = Shops

\* The observation consumed was rejected by one of the three filters.
Filtered(o) == o \in {"skip_price", "skip_single", "skip_high"}

\* A step that consumes an observation with an empty name or a price <= 0
\* rejects it in the filters and writes no price.
MalformedFilteredStep ==
    (IterateStep /\ (items[idx + 1][1] = <<>> \/ items[idx + 1][2] <= 0)) =>
        /\ Filtered(outcome')
        /\ prices' = prices

\* C17 as stated: an observation with an empty name or a non-positive price
\* is excluded by the filters before any scoring, and changes no prices dict.
C17_MalformedFiltered == [][MalformedFilteredStep]_vars

\* A price <= 0 is rejected by the first filter, before scoring; an empty
\* name with a positive price is rejected only by the price ceiling, and is
\* otherwise scored, with no entry and score 0 as the result, and reported
\* unmatched.  Neither writes a price or counts an entry.
MalformedStep ==
    /\ (IterateStep /\ items[idx + 1][2] <= 0) =>
           /\ outcome' = "skip_price"
           /\ UNCHANGED <<prices, matched, best_product, best_score>>
    /\ (IterateStep /\ items[idx + 1][1] = <<>> /\ items[idx + 1][2] > 0) =>
           /\ outcome' = IF items[idx + 1][2] > MAX_BOX_PRICE
                         THEN "skip_high" ELSE "unmatched"
           /\ outcome' = "unmatched" =>
                  best_product' = None /\ best_score' = ScoreOfInt(0)
           /\ UNCHANGED <<prices, matched>>

\* C17, amended: an observation with a non-positive price is excluded by the
\* filters before any scoring; an observation with an empty name and a
\* positive price is not excluded for its name: unless its price is above the
\* ceiling it is scored, obtains no entry, and is unmatched.  Neither changes
\* any entry's prices dict.
C17_MalformedWritesNothing == [][MalformedStep]_vars

\* An empty name with a price within the ceiling was scored and left
\* unmatched, in a call that had already written a price.
C17_Witness ==
    /\ pc = "loop" /\ idx = 2
    /\ items[2] = <<NAME_empty, 5800>>
    /\ outcome = "unmatched"
    /\ best_product = None
    /\ prices # entry_prices

(***************************************************************************)
(* Further properties of the functions applied to one raw name             *)
(* (specification SpecName).                                               *)
(***************************************************************************)

\* C18: two texts that differ only in the letter case of their characters
\* have the same normalize output: here the raw name and its lower-cased
\* form.
C18_NormalizeIgnoresCase ==
    hpc = "scoring" => normalized = normalize(Lower(raw))

\* C19: when at least one entry passes the keyword fast path (a keyword hit
\* and, where it applies, the variant check), the winner is the first such
\* entry in the order of products, with score 100, whatever fuzzy scores the
\* other entries obtain.
C19_ExactTrumpsFuzzy ==
    (Scored /\ KeywordEntries # {}) =>
        /\ best_product = SetMin(KeywordEntries)
        /\ best_score = ScoreOfInt(100)

\* The winner passed the keyword fast path, and an entry before it in the
\* order of products has no keyword in the name and a fuzzy score above 50.
C19_Witness ==
    /\ Scored
    /\ best_product \in KeywordEntries
    /\ \E e \in 1..(best_product - 1) :
           /\ ~HasKeywordOf(e)
           /\ scores[e].num > 50 * scores[e].den

\* The keywords of entry e, by position, that the normalized raw name contains.
KeywordHits(e) ==
    {i \in DOMAIN products[e].keywords :
        LET kw == normalize(products[e].keywords[i]) IN
        kw # <<>> /\ Contains(normalized, kw)}

\* A keyword of entry e that the name contains is one of the shared keywords.
SharedKeywordHit(e) ==
    \E i \in KeywordHits(e) : products[e].keywords[i] \in SHARED_KEYWORDS

\* C20: the variant check is applied to a keyword-matched entry exactly when
\* a keyword that matched is a shared one; an entry matched only through its
\* other keywords is kept with score 100 without a variant check.
C20_VariantCheckOnSharedHit ==
    Scored =>
        \A e \in 1..Len(products) :
            KeywordHits(e) # {} =>
                IF SharedKeywordHit(e)
                THEN scores[e] = IF product_is_dx(products[e]) # (variant = "dx")
                                 THEN NoScore ELSE ScoreOfInt(100)
                ELSE scores[e] = ScoreOfInt(100)

(***************************************************************************)
(* match_products called twice in a row with the same arguments, after at  *)
(* most MaxCalls - 1 calls with any arguments.                             *)
(***************************************************************************)

InitTwice == Init

\* An earlier call, with any arguments.
CallBefore ==
    /\ args.made = 0
    /\ calls < MaxCalls - 1
    /\ Call

\* The first of the two calls: its arguments are kept in args.
CallFirst ==
    /\ pc = "idle"
    /\ args.made = 0
    /\ \E its \in ItemLists, shop \in Shops :
           /\ enter(its, shop)
           /\ args' = [items |-> its, shop |-> shop, made |-> 1]
    /\ UNCHANGED <<order, soup_vars, main_vars>>

\* The second call, with the arguments of the first.
CallSame ==
    /\ pc = "idle"
    /\ args.made = 1
    /\ enter(args.items, args.shop)
    /\ args' = [args EXCEPT !.made = 2]
    /\ UNCHANGED <<order, soup_vars, main_vars>>

NextTwice == CallBefore \/ CallFirst \/ CallSame \/ Iterate \/ Return

SpecTwice == InitTwice /\ [][NextTwice]_vars

\* C11: when the second of two calls in a row with the same observation
\* sequence and shop id has consumed all its observations, every entry's
\* prices dict is what it was after the first call.
C11_SecondCallKeepsPrices ==
    (args.made = 2 /\ pc = "loop" /\ idx = Len(items)) => prices = entry_prices

\* The second call has consumed two observations that resolve to the same
\* entry with different prices; the entry holds the first one's price.
C11_Witness ==
    /\ args.made = 2 /\ pc = "loop" /\ idx = 2 /\ Len(items) = 2
    /\ items[1][2] # items[2][2]
    /\ outcome = "matched"
    /\ \E e \in 1..Len(products) :
           /\ HitsOf(e, 2) = {1, 2}
           /\ shop_id \in DOMAIN prices[e]
           /\ prices[e][shop_id] = items[1][2]

(***************************************************************************)
(* main.py: main().  One run: the prices are reset, the cache is loaded,   *)
(* each scraper of ALL_SCRAPERS is run in turn and its result, or the      *)
(* cached list of its shop, is passed to match_products; then the cache is *)
(* saved and the catalog handed to generate_html.                          *)
(***************************************************************************)

\* The shop ids of the first two scraper classes of ALL_SCRAPERS.
ALL_SCRAPERS == <<"morimori", "homura">>

\* What scraper.scrape() returns when it returns items, as the list
\* [(item.name, item.price) for item in items]: pairs throughout.
SCRAPED_dx == << <<NAME_dx, 5800>> >>

SCRAPED_poor == << <<NAME_empty, 5800>>, <<NAME_fuzzy_72, -1>> >>

SCRAPED_mixed == << <<NAME_fuzzy_72, 5800>>, <<NAME_sealed_single, 0>> >>

ScrapeLists == {SCRAPED_dx, SCRAPED_poor, SCRAPED_mixed}

\* Lists of data/cache.json: one of pairs, and one whose second element is
\* not a pair.
CACHED_base == << <<NAME_base, 60000>> >>

CACHED_short == << <<NAME_sealed_single, 5800>>, <<NAME_dx>> >>

CachedLists == {CACHED_base, CACHED_short}

\* The contents of data/cache.json: a dict from some shop ids to lists.
CacheFiles ==
    UNION {[have -> CachedLists] : have \in SUBSET {"morimori", "homura"}}

\* The prices dicts when main() starts: empty as at import, or with a price
\* an earlier use of the catalog in the same process left.
StalePrices(c) ==
    [e \in 1..Len(c) |-> IF e = 1 THEN [t \in {"morimori"} |-> 7]
                         ELSE [t \in {} |-> 0]]

\* product.prices.clear() left out.
clear_prices_skipped(pm) == pm

\* for product in MASTER_PRODUCTS: product.prices.clear()
clear_prices(pm) == [e \in DOMAIN pm |-> [t \in {} |-> 0]]

\* cache = {shop_id: scraped}: the other entries dropped.
cache_put_alone(c, shop, list) == [t \in {shop} |-> list]

\* cache[shop_id] = scraped
cache_put(c, shop, list) ==
    [t \in DOMAIN c \cup {shop} |-> IF t = shop THEN list ELSE c[t]]

\* The list of whichever shop the cache lists first.
cache_get_first(c, shop) == c[CHOOSE t \in DOMAIN c : TRUE]

\* cache[shop_id]
cache_get(c, shop) == c[shop]

InitMain ==
    /\ products = MASTER_PRODUCTS
    /\ prices \in {NoPrices(products), StalePrices(products)}
    /\ entry_prices = prices
    /\ pc = "idle" /\ shop_id = "" /\ items = <<>> /\ idx = 0 /\ matched = {}
    /\ best_product = None /\ best_score = ScoreOfInt(0)
    /\ outcome = "none" /\ summary = <<>> /\ calls = 0
    /\ NameOff
    /\ args = NoArgs
    /\ order = NoOrder
    /\ SoupOff
    /\ mpc = "start" /\ si = 0 /\ cache = <<>> /\ scraped = <<>>
    /\ success_count = 0 /\ entered = <<>> /\ html = <<>>
    /\ disk \in CacheFiles

\* main.py:49-53: the prices are cleared, the cache is loaded.
MainReset ==
    /\ mpc = "start"
    /\ prices' = clear_prices(prices)
    /\ cache' = disk
    /\ mpc' = "loop"
    /\ UNCHANGED <<products, best_product, best_score, pc, shop_id, items, idx,
                   matched, outcome, summary, entry_prices, calls, name_vars,
                   args, order, soup_vars, si, scraped, success_count,
                   entered, html, disk>>

\* The scraper main's loop is at.
shop_now == ALL_SCRAPERS[si + 1]

\* No call of match_products is made and none is in progress.
no_call == UNCHANGED <<products, best_product, best_score, flow_vars, name_vars>>

\* main.py:64-68: scrape() returns items; match_products(scraped, shop_id).
ScrapeItems ==
    /\ mpc = "loop" /\ si < Len(ALL_SCRAPERS)
    /\ \E its \in ScrapeLists :
           /\ scraped' = its
           /\ enter(its, shop_now)
           /\ entered' = Append(entered, <<shop_now, its, 68>>)
    /\ mpc' = "fresh"
    /\ UNCHANGED <<args, order, soup_vars,
                   si, cache, success_count, html, disk>>

\* main.py:72-78: scrape() returns nothing; the cached list, if there is one.
ScrapeEmpty ==
    /\ mpc = "loop" /\ si < Len(ALL_SCRAPERS)
    /\ IF shop_now \in DOMAIN cache
       THEN /\ enter(cache_get(cache, shop_now), shop_now)
            /\ entered' = Append(entered,
                                 <<shop_now, cache_get(cache, shop_now), 77>>)
            /\ mpc' = "cached"
            /\ UNCHANGED si
       ELSE /\ no_call
            /\ si' = si + 1
            /\ UNCHANGED <<mpc, entered>>
    /\ UNCHANGED <<args, order, soup_vars,
                   cache, scraped, success_count, html, disk>>

\* main.py:79-87: scrape() raises; the cached list, if there is one.
ScrapeRaises ==
    /\ mpc = "loop" /\ si < Len(ALL_SCRAPERS)
    /\ IF shop_now \in DOMAIN cache
       THEN /\ enter(cache_get(cache, shop_now), shop_now)
            /\ entered' = Append(entered,
                                 <<shop_now, cache_get(cache, shop_now), 86>>)
            /\ mpc' = "except"
            /\ UNCHANGED si
       ELSE /\ no_call
            /\ si' = si + 1
            /\ UNCHANGED <<mpc, entered>>
    /\ UNCHANGED <<args, order, soup_vars,
                   cache, scraped, success_count, html, disk>>

\* matcher.py:191: the element cannot be unpacked; the exception leaves
\* match_products.
Raise ==
    /\ pc = "loop"
    /\ idx < Len(items)
    /\ ~well_typed(items[idx + 1])
    /\ pc' = "raised"
    /\ UNCHANGED <<products, best_product, best_score, prices, shop_id, items,
                   idx, matched, outcome, summary, entry_prices, calls,
                   name_vars, run_vars>>

\* main.py:69-71: match_products(scraped, shop_id) returned.
AfterFresh ==
    /\ mpc = "fresh" /\ pc = "idle"
    /\ cache' = cache_put(cache, shop_now, scraped)
    /\ success_count' = success_count + 1
    /\ si' = si + 1
    /\ scraped' = <<>>
    /\ mpc' = "loop"
    /\ no_call
    /\ UNCHANGED <<args, order, soup_vars, entered, html, disk>>

\* main.py:78 and 87: match_products(cache[shop_id], shop_id) returned.
AfterCached ==
    /\ mpc \in {"cached", "except"} /\ pc = "idle"
    /\ success_count' = success_count + 1
    /\ si' = si + 1
    /\ mpc' = "loop"
    /\ no_call
    /\ UNCHANGED <<args, order, soup_vars, cache, scraped, entered, html, disk>>

\* main.py:79-87: an exception raised in the try block while match_products
\* was running is caught; the cached list, if there is one.
Except ==
    /\ mpc \in {"fresh", "cached"} /\ pc = "raised"
    /\ IF shop_now \in DOMAIN cache
       THEN /\ enter(cache_get(cache, shop_now), shop_now)
            /\ entered' = Append(entered,
                                 <<shop_now, cache_get(cache, shop_now), 86>>)
            /\ mpc' = "except"
            /\ UNCHANGED si
       ELSE /\ pc' = "idle"
            /\ si' = si + 1
            /\ mpc' = "loop"
            /\ UNCHANGED <<products, best_product, best_score, prices, shop_id,
                           items, idx, matched, outcome, summary, entry_prices,
                           calls, name_vars, entered>>
    /\ scraped' = <<>>
    /\ UNCHANGED <<args, order, soup_vars, cache, success_count, html, disk>>

\* main.py:86: an exception raised by the call of the except block leaves
\* main(): nothing after it runs.
Crash ==
    /\ mpc = "except" /\ pc = "raised"
    /\ mpc' = "crashed"
    /\ no_call
    /\ UNCHANGED <<args, order, soup_vars,
                   si, cache, scraped, success_count, entered, html, disk>>

\* main.py:89-115: the loop is over; save_cache(cache), the summaries,
\* generate_html(MASTER_PRODUCTS).
Finish ==
    /\ mpc = "loop" /\ si = Len(ALL_SCRAPERS)
    /\ disk' = cache
    /\ html' = <<prices>>
    /\ mpc' = "done"
    /\ no_call
    /\ UNCHANGED <<args, order, soup_vars,
                   si, cache, scraped, success_count, entered>>

NextMain ==
    \/ MainReset \/ ScrapeItems \/ ScrapeEmpty \/ ScrapeRaises
    \/ Iterate \/ Return \/ Raise
    \/ AfterFresh \/ AfterCached \/ Except \/ Crash \/ Finish

SpecMain == InitMain /\ [][NextMain]_vars

\* main() is a sequential program: it keeps running until it ends.
SpecMainFair == SpecMain /\ WF_vars(NextMain)

(***************************************************************************)
(* Properties of main() (specifications SpecMain and SpecMainFair).        *)
(***************************************************************************)

\* The price entry e holds for shop t in what generate_html received is the
\* price of a pair of a list passed to match_products for t in this run.
WrittenThisRun(e, t) ==
    \E c \in DOMAIN entered :
        /\ entered[c][1] = t
        /\ \E j \in DOMAIN entered[c][2] :
               /\ Len(entered[c][2][j]) = 2
               /\ entered[c][2][j][2] = html[1][e][t]

\* No call of match_products is made before the prices are cleared, and they
\* are empty until the first call; generate_html gets the catalog when the
\* loop over the scrapers is over and no call is in progress, and every
\* price it gets was written in this run.
RunLifecycle ==
    /\ mpc = "start" => entered = <<>> /\ pc = "idle"
    /\ (mpc # "start" /\ entered = <<>>) => prices = NoPrices(products)
    /\ html # <<>> =>
           /\ mpc = "done" /\ si = Len(ALL_SCRAPERS) /\ pc = "idle"
           /\ html = <<prices>>
           /\ \A e \in 1..Len(products) : \A t \in DOMAIN html[1][e] :
                  WrittenThisRun(e, t)

\* C14: every entry's prices map is emptied before the first match_products
\* call of the run, the catalog is handed to generate_html only after the
\* calls for all shops have finished, and every price present then was
\* written during this run.
C14_RunLifecycle == RunLifecycle

\* The run is over, match_products ran for both shops, and generate_html got
\* an entry with the prices of both.
C14_Witness ==
    /\ mpc = "done" /\ Len(entered) = 2
    /\ \E e \in 1..Len(products) : DOMAIN html[1][e] = {"morimori", "homura"}

PairsOnly(list) == \A j \in DOMAIN list : Len(list[j]) = 2

\* The outcomes of an iteration of the loop over scraped_items.
Outcomes == {"skip_price", "skip_single", "skip_high", "unmatched", "matched"}

\* A step of a call on a list of pairs does not raise; it consumes the next
\* observation, which is skipped, unmatched or matched (never matched when
\* its name is empty or its price not positive), or it returns, all
\* observations consumed.
NoErrorStep ==
    (pc = "loop" /\ PairsOnly(items)) =>
        /\ pc' # "raised"
        /\ pc' = "idle" => idx = Len(items)
        /\ pc' = "loop" =>
               /\ idx' = idx + 1
               /\ outcome' \in Outcomes
               /\ (items[idx'][1] = <<>> \/ items[idx'][2] <= 0) =>
                      outcome' # "matched" /\ prices' = prices

\* A call on a list of pairs returns, with all its observations counted.
RunsToTheEnd ==
    \A list \in ScrapeLists \cup {CACHED_base} :
        (pc = "loop" /\ items = list) ~>
            (pc = "idle" /\ summary # <<>> /\ summary[1].total = Len(list))

\* C16: for every well-typed observation sequence match_products raises no
\* error and processes every observation to the end; an empty name, a zero
\* or negative price, or a name matching no entry only leaves the
\* observation skipped or unmatched.
C16_NoErrorToTheEnd == [][NoErrorStep]_vars /\ RunsToTheEnd

\* A call on a list with an empty name and a negative price has returned,
\* both observations counted and none matched.
C16_Witness ==
    /\ mpc = "fresh" /\ pc = "idle"
    /\ scraped = SCRAPED_poor
    /\ summary = <<[shop |-> "morimori", matched |-> 0, total |-> 2]>>

(***************************************************************************)
(* Further properties of _disambiguate_dx and of the loop over products    *)
(* (specification SpecName).                                               *)
(***************************************************************************)

\* _disambiguate_dx has been applied to the raw name.
Classified == hpc = "scoring"

\* "DX" in any letter case occurs in the raw name.
RawHasDxMarker == Contains(Lower(raw), TXT_dx)

\* C21 as stated: the name is classified "dx" if and only if the marker
\* occurs, in some letter case, in the raw or in the normalized text; and a
\* name whose raw text has no marker is classified base.
C21_VariantIffMarker ==
    Classified =>
        /\ variant = "dx" <=> HasDxMarker
        /\ ~RawHasDxMarker => variant = "normal"

(***************************************************************************)
(* Further properties of match_products (specification Spec).              *)
(***************************************************************************)

\* The last observation consumed by the call in progress passed the filters
\* and was scored against the catalog.
ScoredLast == pc = "loop" /\ idx > 0 /\ outcome \in {"matched", "unmatched"}

\* C22: the winner and its score for a scored observation are those of the
\* loop over products on the raw name and the identity fields of the catalog
\* alone (BestOf, the table of product_loop): the same whatever prices holds, whichever shop and price the
\* observation has, and whatever observations and calls came before.
C22_WinnerByNameAndCatalog ==
    ScoredLast =>
        [product |-> best_product, score |-> best_score]
            = BestOf[products][items[idx][1]]

\* The second call, entered with a price already stored, has scored its
\* second observation, which has another name than the first, for another
\* shop than the one whose price is stored, and it won an entry.
C22_Witness ==
    /\ ScoredLast
    /\ calls = 2 /\ idx = 2
    /\ items[1][1] # items[2][1]
    /\ \E e \in 1..Len(products) :
           DOMAIN entry_prices[e] # {} /\ shop_id \notin DOMAIN entry_prices[e]
    /\ outcome = "matched"
    /\ best_product # None

\* The observations consumed so far by the call in progress that passed
\* the filters.
EligibleSoFar == {i \in 1..idx : Eligible(items[i])}

\* C23: at every point of a call, the set matched holds each catalog entry
\* that a consumed observation resolved to exactly once, however many
\* observations resolved to it; its size is at most the number of catalog
\* entries and at most the number of eligible observations consumed so far.
C23_MatchedCountBounded ==
    pc = "loop" =>
        /\ matched = {e \in 1..Len(products) : HitsOf(e, idx) # {}}
        /\ Cardinality(matched) <= Len(products)
        /\ Cardinality(matched) <= Cardinality(EligibleSoFar)

\* Two eligible observations of one call resolved to the same entry, which
\* is counted once.
C23_Witness ==
    /\ pc = "loop" /\ idx = 2
    /\ Cardinality(EligibleSoFar) = 2
    /\ \E e \in 1..Len(products) :
           /\ Cardinality(HitsOf(e, idx)) = 2
           /\ matched = {e}

(***************************************************************************)
(* Further properties of main() (specification SpecMain).                  *)
(***************************************************************************)

\* main() is between load_cache() and save_cache(cache): disk still holds
\* what load_cache() returned.
InRun == mpc \in {"loop", "fresh", "cached", "except", "crashed"}

\* The shops whose scrape returned items in this run.
FreshShops == {entered[i][1] : i \in {j \in DOMAIN entered : entered[j][3] = 68}}

\* The calls of match_products made with a cached list (main.py:77, 86).
CachedCalls == {i \in DOMAIN entered : entered[i][3] \in {77, 86}}

\* The shops the loop of main() is through with.
ShopsDone == {ALL_SCRAPERS[p] : p \in 1..si}

\* C24: a call made on the fallback path resolves the list that the cache
\* loaded at the start holds for that shop; a shop whose scrape raised or
\* returned no items had that list resolved when the loaded cache has an
\* entry for it, and otherwise had no call of match_products and holds no
\* price in any entry.
C24_CacheFallback ==
    InRun =>
        /\ \A i \in CachedCalls :
               /\ entered[i][1] \in DOMAIN disk
               /\ entered[i][2] = disk[entered[i][1]]
        /\ \A shop \in ShopsDone \ FreshShops :
               IF shop \in DOMAIN disk
               THEN \E i \in CachedCalls :
                        entered[i] = <<shop, disk[shop], entered[i][3]>>
               ELSE /\ \A i \in DOMAIN entered : entered[i][1] # shop
                    /\ \A e \in 1..Len(products) : shop \notin DOMAIN prices[e]

\* Both shops are done without a scrape that returned items: the first had
\* its cached list resolved, which gave an entry its price; the second has
\* no cache entry and had no call.
C24_Witness ==
    /\ mpc = "loop" /\ si = 2
    /\ DOMAIN disk = {"morimori"}
    /\ entered = << <<"morimori", CACHED_base, 86>> >>
    /\ \E e \in 1..Len(products) : prices[e] = [t \in {"morimori"} |-> 60000]

\* A step of main() after load_cache() that changes the dict cache: it
\* follows a call of match_products on the items this run's scrape returned
\* for the shop, sets that shop's entry to the very list that call was given,
\* and keeps every other entry.
CacheUpdateStep ==
    (mpc # "start" /\ cache' # cache) =>
        /\ mpc = "fresh"
        /\ Len(scraped) >= 1
        /\ entered[Len(entered)] = <<shop_now, scraped, 68>>
        /\ DOMAIN cache' = DOMAIN cache \cup {shop_now}
        /\ cache'[shop_now] = scraped
        /\ \A t \in DOMAIN cache \ {shop_now} : cache'[t] = cache[t]

\* A step that leaves a shop of the loop behind without a call on scraped
\* items for it leaves the cache as it is.
CacheKeptStep ==
    (si' # si /\ mpc # "fresh") => cache' = cache

\* A step that changes the cache file: save_cache(cache), made once the loop
\* is through with every shop, and the last step of main().
CacheSavedStep ==
    disk' # disk =>
        /\ si = Len(ALL_SCRAPERS)
        /\ disk' = cache
        /\ mpc = "loop" /\ mpc' = "done"

\* C25: the cache entry of a shop is replaced only after this run's scrape
\* of the shop returned items, by the list passed to match_products; it is
\* left alone otherwise and no entry is removed; the cache is written to
\* disk in one step only, after all shops.
C25_CacheUpdate == [][CacheUpdateStep /\ CacheKeptStep /\ CacheSavedStep]_vars

\* main() has ended: the first shop's entry was replaced by the scraped
\* list, the second shop fell back on its cached list and kept its entry.
C25_Witness ==
    /\ mpc = "done"
    /\ entered = << <<"morimori", SCRAPED_dx, 68>>, <<"homura", CACHED_base, 77>> >>
    /\ DOMAIN disk = {"morimori", "homura"}
    /\ disk["morimori"] = SCRAPED_dx
    /\ disk["homura"] = CACHED_base

\* The price p is one the filters let through.
InRange(p) == p \in Int /\ 0 < p /\ p <= MAX_BOX_PRICE

\* C26: from empty prices dicts, after any calls of match_products, every
\* stored price is an integer p with 0 < p <= 60000; and a price stored
\* during the call in progress is stored under the shop of that call and is
\* the price of one of the observations the call has consumed.
C26_StoredPriceFromObservation ==
    \A e \in 1..Len(products) :
        \A s \in DOMAIN prices[e] :
            /\ InRange(prices[e][s])
            /\ pc = "loop" =>
                   IF s \in DOMAIN entry_prices[e]
                   THEN prices[e][s] = entry_prices[e][s]
                   ELSE /\ s = shop_id
                        /\ \E i \in 1..idx : items[i][2] = prices[e][s]

\* The second call has stored the price at the ceiling for its shop, taken
\* from its second observation, the first one having a price above the
\* ceiling; the entry already held a price of the other shop.
C26_Witness ==
    /\ pc = "loop" /\ calls = 2 /\ idx = 2
    /\ items[1][2] = 60001 /\ items[2][2] = 60000
    /\ \E e \in 1..Len(products) :
           /\ DOMAIN entry_prices[e] = Shops \ {shop_id}
           /\ DOMAIN prices[e] = Shops
           /\ prices[e][shop_id] = 60000

(***************************************************************************)
(* The calls of match_products for two shops, made in one order from empty *)
(* prices dicts and then, from cleared prices dicts, in the other order.   *)
(***************************************************************************)

\* The prices of the observations given to the two shops.
OrderPrices == {5800, 60000}

\* The observation sequences given to the two shops.
OrderLists == UNION {[1..n -> FlowNames \X OrderPrices] : n \in 0..MaxItems}

InitOrder == Init

\* One observation sequence per shop is chosen, the shop ids distinct; the
\* call for the first shop.
CallOne ==
    /\ pc = "idle"
    /\ order.step = 0
    /\ \E its1 \in OrderLists, its2 \in OrderLists, shop1 \in Shops :
           \E shop2 \in Shops \ {shop1} :
               /\ enter(its1, shop1)
               /\ order' = [one |-> <<its1, shop1>>, two |-> <<its2, shop2>>,
                            step |-> 1, final |-> <<>>]
    /\ UNCHANGED <<args, soup_vars, main_vars>>

\* Then the call for the second shop.
CallTwo ==
    /\ pc = "idle"
    /\ order.step = 1
    /\ enter(order.two[1], order.two[2])
    /\ order' = [order EXCEPT !.step = 2]
    /\ UNCHANGED <<args, soup_vars, main_vars>>

\* The prices the first order ended with are kept aside and the prices
\* dicts are cleared, as main() does before its calls.
ClearBetween ==
    /\ pc = "idle"
    /\ order.step = 2
    /\ order' = [order EXCEPT !.step = 3, !.final = prices]
    /\ prices' = clear_prices(prices)
    /\ entry_prices' = clear_prices(prices)
    /\ UNCHANGED <<products, best_product, best_score, pc, shop_id, items, idx,
                   matched, outcome, summary, calls, name_vars, args,
                   soup_vars, main_vars>>

\* The other order: the call for the second shop first.
CallTwoFirst ==
    /\ pc = "idle"
    /\ order.step = 3
    /\ enter(order.two[1], order.two[2])
    /\ order' = [order EXCEPT !.step = 4]
    /\ UNCHANGED <<args, soup_vars, main_vars>>

\* Then the call for the first shop.
CallOneLast ==
    /\ pc = "idle"
    /\ order.step = 4
    /\ enter(order.one[1], order.one[2])
    /\ order' = [order EXCEPT !.step = 5]
    /\ UNCHANGED <<args, soup_vars, main_vars>>

NextOrder ==
    \/ CallOne \/ CallTwo \/ ClearBetween \/ CallTwoFirst \/ CallOneLast
    \/ Iterate \/ Return

SpecOrder == InitOrder /\ [][NextOrder]_vars

\* Both orders have run to their end.
BothOrdersDone == order.step = 5 /\ pc = "idle"

\* C27: from cleared prices dicts, with one observation sequence per shop
\* and distinct shop ids, the prices dicts of all entries after the calls in
\* the order (two, one) are those after the calls in the order (one, two).
C27_ShopOrderIndependent == BothOrdersDone => prices = order.final

\* Both orders have run; each shop's sequence gave a price to one and the
\* same entry, which holds the two prices.
C27_Witness ==
    /\ BothOrdersDone
    /\ \E e \in 1..Len(products) :
           /\ DOMAIN prices[e] = Shops
           /\ prices[e][order.one[2]] = 5800
           /\ prices[e][order.two[2]] = 60000

(***************************************************************************)
(* The candidates dropped by the disambiguation (specification SpecName).  *)
(***************************************************************************)

\* The entries, among those scored so far, whose keyword the name contains
\* and whose variant check it fails.
Dropped ==
    {e \in 1..Len(scores) : HasKeywordOf(e) /\ FailsVariantCheck(e)}

\* C28: an entry matched by keyword and discarded by the variant check gets
\* no score in its iteration of the loop over products, neither 100 nor a
\* fuzzy score, and is not the winner.
C28_DroppedScoresNothing ==
    hpc = "scoring" =>
        \A e \in Dropped : scores[e] = NoScore /\ best_product # e

\* All entries are scored; one of them was dropped by the variant check
\* although the fuzzy score of its canonical name against the raw name is
\* 75 or more.
C28_Witness ==
    /\ Scored
    /\ \E e \in Dropped :
           AtLeast75(token_sort_ratio(normalized, normalize(products[e].name)))

(***************************************************************************)
(* The end of main() (specification SpecMainFair).                         *)
(***************************************************************************)

\* The shops match_products was run for in this run of main().
ShopsMatched == {entered[i][1] : i \in DOMAIN entered}

\* The loop of main() moves from one scraper of ALL_SCRAPERS to the next.
NextScraperStep == si' # si => si' = si + 1

\* Between two shops and at the end, success_count is the number of shops
\* match_products was run for, and it never exceeds the number of shops.
SuccessCounted ==
    /\ success_count <= Len(ALL_SCRAPERS)
    /\ mpc \in {"loop", "done", "crashed"} =>
           success_count = Cardinality(ShopsMatched)

\* main() ended after every scraper had its turn, the cache was saved and
\* generate_html was called.
EndedWell ==
    /\ mpc = "done"
    /\ si = Len(ALL_SCRAPERS)
    /\ disk = cache
    /\ html # <<>>

MAX_ATTEMPTS == 3

\* The urls asked for.
Urls == {"https://shop.example/buy", "https://shop.example/buy?page=2"}

\* resp.text of a response whose status raise_for_status accepts.
Pages == {"<ul><li>151 BOX</li></ul>", ""}

\* The exceptions of requests: session.get raises the first two,
\* resp.raise_for_status() raises HTTPError on a 4xx or 5xx status.
RequestExceptions == {"ConnectionError", "Timeout", "HTTPError"}

\* Exceptions that are not requests.RequestException.
OtherExceptions == {"TypeError"}

\* BeautifulSoup(resp.text, "html.parser"): the document parsed from text.
BeautifulSoup(text) == [parser |-> "html.parser", markup |-> text]

\* time.sleep(3) after every failed attempt.
backoff_flat(n) == 3

\* time.sleep(3 * (attempt + 1))
backoff(n) == 3 * (n + 1)

InitSoup == Init

\* No step of _get_soup touches the catalog, match_products or main().
soup_only ==
    UNCHANGED <<products, best_product, best_score, flow_vars, name_vars,
                args, order, main_vars>>

\* _get_soup(url) is called: the loop starts with attempt = 0.
GetSoup ==
    /\ gpc = "off"
    /\ \E u \in Urls : url' = u
    /\ attempt' = 0
    /\ gpc' = "try"
    /\ UNCHANGED <<replies, slept, warned, soup, raised>>
    /\ soup_only

\* session.get returns, raise_for_status accepts the status: the parsed
\* document is returned.
AttemptSucceeds ==
    /\ gpc = "try"
    /\ \E text \in Pages :
           /\ replies' = Append(replies, [ok |-> TRUE, text |-> text])
           /\ soup' = <<BeautifulSoup(text)>>
    /\ gpc' = "returned"
    /\ UNCHANGED <<url, attempt, slept, warned, raised>>
    /\ soup_only

\* session.get or raise_for_status raises a requests.RequestException: the
\* warning is logged; before the third attempt the function sleeps and goes
\* on with the next attempt, after it the exception is raised again.
AttemptFails ==
    /\ gpc = "try"
    /\ \E e \in RequestExceptions :
           /\ replies' = Append(replies, [ok |-> FALSE, error |-> e])
           /\ warned' = Append(warned, <<attempt + 1, e>>)
           /\ IF attempt < MAX_ATTEMPTS - 1
              THEN /\ slept' = Append(slept, backoff(attempt))
                   /\ attempt' = attempt + 1
                   /\ UNCHANGED <<gpc, raised>>
              ELSE /\ raised' = e
                   /\ gpc' = "raised"
                   /\ UNCHANGED <<slept, attempt>>
    /\ UNCHANGED <<url, soup>>
    /\ soup_only

\* session.get, raise_for_status or BeautifulSoup raises another exception:
\* no handler, it leaves the function.
AttemptBreaks ==
    /\ gpc = "try"
    /\ \E e \in OtherExceptions :
           /\ replies' = Append(replies, [ok |-> FALSE, error |-> e])
           /\ raised' = e
    /\ gpc' = "raised"
    /\ UNCHANGED <<url, attempt, slept, warned, soup>>
    /\ soup_only

NextSoup == GetSoup \/ AttemptSucceeds \/ AttemptFails \/ AttemptBreaks

SpecSoup == InitSoup /\ [][NextSoup]_vars

\* The attempts made so far that ended in an exception of requests.
FailedRequests ==
    {i \in DOMAIN replies :
        ~replies[i].ok /\ replies[i].error \in RequestExceptions}

\* The sleeps _get_soup is to have made after n failed attempts: 3 seconds
\* after the first, 6 after the second, none after the third.
SleepsAfter(n) == SubSeq(<<3, 6>>, 1, IF n < 2 THEN n ELSE 2)

\* C30: _get_soup calls session.get at most three times; it sleeps 3 and
\* then 6 seconds after the first and the second failed attempt and tries
\* again; it returns only the document parsed from the reply of the first
\* attempt that succeeded; it raises the exception of requests only after
\* three failed attempts in a row, the third one's; and any other exception
\* leaves it at once, with no warning, sleep or further attempt.
C30_GetSoupRetries ==
    /\ Len(replies) <= MAX_ATTEMPTS
    /\ slept = SleepsAfter(Cardinality(FailedRequests))
    /\ gpc = "try" =>
           /\ FailedRequests = DOMAIN replies
           /\ attempt = Len(replies)
    /\ gpc = "returned" =>
           /\ FailedRequests = 1..(Len(replies) - 1)
           /\ replies[Len(replies)].ok
           /\ soup = <<BeautifulSoup(replies[Len(replies)].text)>>
           /\ raised = "none"
    /\ gpc = "raised" =>
           /\ soup = <<>>
           /\ raised = replies[Len(replies)].error
           /\ IF raised \in RequestExceptions
              THEN FailedRequests = 1..MAX_ATTEMPTS
              ELSE /\ FailedRequests = 1..(Len(replies) - 1)
                   /\ Len(warned) = Len(replies) - 1

\* The third attempt succeeded after two failed ones, with sleeps of 3 and
\* 6 seconds, and its document was returned.
C30_Witness ==
    /\ gpc = "returned"
    /\ Len(replies) = 3
    /\ slept = <<3, 6>>
    /\ soup = <<BeautifulSoup(replies[3].text)>>

====
